---- MODULE Spec2Model ----
(***************************************************************************)
(* State-machine model of src/src/App.tsx (gold-rush-digger): the block    *)
(* grid, the dig/collect handlers of GameScene, the per-component state of *)
(* GroundBlock, GoldNugget and DirtParticle, and the score/combo state of  *)
(* App with its two kinds of setTimeout timers.                            *)
(*                                                                         *)
(* React semantics used: every event handler / timer callback runs to      *)
(* completion and its state updates are committed (re-rendered) before the *)
(* next event, so each handler is one atomic action and a handler created  *)
(* by a render closes over the state values of that render.  A callback    *)
(* handed to setTimeout keeps the closure of the render that created it.   *)
(* Effects and state updaters are taken to run once (no development-mode  *)
(* double invocation).                                                     *)
(*                                                                         *)
(* Time is counted in quanta of TickMs milliseconds; one animation frame   *)
(* is rendered per quantum.  A timer whose delay has elapsed fires before  *)
(* time advances further; the 300 ms timers fire in the order they were    *)
(* started, and a 300 ms timer and the decay timer that fall due in the    *)
(* same quantum fire in either order (the clicks are not aligned to the    *)
(* quantum).                                                               *)
(*                                                                         *)
(* Math.random() is a free choice.  Particle velocities and positions in   *)
(* flight, nugget scale and rotation are rendering state that no handler   *)
(* reads; they are left out.                                               *)
(***************************************************************************)
EXTENDS Integers, Sequences, FiniteSets, TLC

VARIABLES
    initialized,    \* the grid-initialisation effect of GameScene has run
    blocks,         \* GameScene.blocks   : Seq([pos, id, hasGold, depth])
    nuggets,        \* GameScene.nuggets  : Seq([pos, id])
    particles,      \* GameScene.particles: Seq([id, pos])
    nuggetIdRef,    \* GameScene.nuggetIdRef.current
    particleIdRef,  \* GameScene.particleIdRef.current
    dugLevel,       \* GroundBlock.dugLevel per block position; a block that
                    \* was never clicked has no entry and is at useState(0)
    collected,      \* GoldNugget.collected, per mounted nugget id
    opacity,        \* DirtParticle.opacity (in 1/OpacityFull), per particle id
    gold, digs, combo,  \* App score state
    comboTimerRef,  \* App.comboTimerRef.current (NoTimer = null)
    timerSeq,       \* next id handed out by setTimeout
    collectTimers,  \* pending setTimeout(() => onCollect(id), 300) callbacks
    decayTimers,    \* pending setTimeout(() => setCombo(0), 2000) callbacks
    digLog,         \* history: the (pos, hasGold) arguments of each onDig call
    collectLog,     \* history: per onCollect call, its id and whether a decay
                    \* timer was pending when it ran
    decayLog        \* history: ids of the decay timers that fired

vars == <<initialized, gold, digs, combo, comboTimerRef, timerSeq, nuggetIdRef,
          particleIdRef, collectTimers, decayTimers, digLog, collectLog,
          decayLog, dugLevel, collected, opacity, nuggets, particles, blocks>>

---------------------------------------------------------------------------
(* Program constants *)

XMin == -4
XMax == 4
YMin == -5
YMax == 0
ZMin == -4
ZMax == 4
DigThreshold == 3
LastDigLevel == 2
ParticlesPerDig == 8
\* DirtParticle opacity is kept in thousandths: useState(1) is 1000
OpacityFull == 1000
\* opacity lost per second of frame time (delta * 2), so per millisecond
\* FadeRate thousandths
FadeRate == 2
CollectDelayMs == 300
ComboWindowMs == 2000
ComboStep == 3

(* Bounds of the model *)

\* how many cells of CandidateCells the player ever clicks
NumClickCells == 2
\* how many gold cells the player of SpecRush digs up, one after the other
NumRushCells == 4

---------------------------------------------------------------------------
(* Time *)

RECURSIVE GCD(_, _)
GCD(a, b) == IF b = 0 THEN a ELSE GCD(b, a % b)

\* the time quantum: the largest one that divides both timer delays
TickMs == GCD(ComboWindowMs, CollectDelayMs)
CollectDelay == CollectDelayMs \div TickMs
ComboWindow == ComboWindowMs \div TickMs

NoTimer == 0

---------------------------------------------------------------------------
(* Template-literal formatting of the block id *)

Digits == <<"0", "1", "2", "3", "4", "5", "6", "7", "8", "9">>

RECURSIVE NatStr(_)
NatStr(n) == IF n < 10 THEN Digits[n + 1]
             ELSE NatStr(n \div 10) \o Digits[(n % 10) + 1]

\* `${n}` for an integer n
NumStr(n) == IF n < 0 THEN "-" \o NatStr(-n) ELSE NatStr(n)

\* mutant: the id leaves z out
BlockId_NoZ(x, y, z) == NumStr(x) \o "-" \o NumStr(y)

\* `${x}-${y}-${z}`
BlockId(x, y, z) == NumStr(x) \o "-" \o NumStr(y) \o "-" \o NumStr(z)

---------------------------------------------------------------------------
(* Helpers *)

Max(a, b) == IF a >= b THEN a ELSE b

\* cells the player may click, in a fixed order; all lie on the outside
\* of the grid
CandidateCells == << <<-4, -5, -4>>, <<0, 0, 0>>, <<4, -2, -1>>,
                     <<-1, 0, 3>>, <<2, -5, 4>>, <<-3, -1, -4>> >>

ClickCells == {CandidateCells[i] : i \in 1..NumClickCells}

RushCells == {CandidateCells[i] : i \in 1..NumRushCells}

---------------------------------------------------------------------------
(* GameScene: grid initialisation effect *)

\* one cell as pushed by the innermost loop body; goldAt is the set of
\* positions for which Math.random() < goldChance came out true
NewBlock(x, y, z, goldAt) ==
    [pos |-> <<x, y, z>>, id |-> BlockId(x, y, z),
     hasGold |-> (<<x, y, z>> \in goldAt), depth |-> -y]

\* the three nested for loops, innermost first; each yields the cells it
\* pushes, in push order
RECURSIVE LoopZ(_, _, _, _)
LoopZ(x, y, z, goldAt) ==
    IF z <= ZMax
    THEN <<NewBlock(x, y, z, goldAt)>> \o LoopZ(x, y, z + 1, goldAt)
    ELSE <<>>

RECURSIVE LoopY(_, _, _)
LoopY(x, y, goldAt) ==
    IF y <= YMax
    THEN LoopZ(x, y, ZMin, goldAt) \o LoopY(x, y + 1, goldAt)
    ELSE <<>>

RECURSIVE LoopX(_, _)
LoopX(x, goldAt) ==
    IF x <= XMax
    THEN LoopY(x, YMin, goldAt) \o LoopX(x + 1, goldAt)
    ELSE <<>>

NewBlocks(goldAt) == LoopX(XMin, goldAt)

---------------------------------------------------------------------------
(* GroundBlock.handleClick, as functions of the rendered dugLevel *)

\* the value handed to setDugLevel, or the old one when the click is ignored
ClickedLevel(d) == IF d < DigThreshold THEN d + 1 ELSE d

\* mutant: the level test before onDig is lost, every accepted click digs
ClickDigs_AnyClick(d) == d < DigThreshold

\* whether the click calls onDig(position, hasGold)
ClickDigs(d) == d < DigThreshold /\ d = LastDigLevel

---------------------------------------------------------------------------
(* GameScene.handleDig *)

\* pos + (0, 0.5, 0), with coordinates counted in halves
Raised(pos) == <<2 * pos[1], 2 * pos[2] + 1, 2 * pos[3]>>

\* mutant: the loop stops one short
NewParticles_OneShort(pos, firstId) ==
    [i \in 1..(ParticlesPerDig - 1) |-> [id |-> firstId + (i - 1), pos |-> Raised(pos)]]

\* the newParticles array built by the for loop, ids from firstId on
NewParticles(pos, firstId) ==
    [i \in 1..ParticlesPerDig |-> [id |-> firstId + (i - 1), pos |-> Raised(pos)]]

\* mutant: the id to remove is built without the separators
RemoveBlock_NoSeparator(prev, pos) ==
    SelectSeq(prev, LAMBDA b : b.id # NumStr(pos[1]) \o NumStr(pos[2]) \o NumStr(pos[3]))

\* prev.filter(b => b.id !== `${pos[0]}-${pos[1]}-${pos[2]}`)
RemoveBlock(prev, pos) ==
    SelectSeq(prev, LAMBDA b : b.id # BlockId(pos[1], pos[2], pos[3]))

\* mutant: the id is the list length instead of the counter
AddNugget_LengthId(prev, pos, nextId) ==
    Append(prev, [pos |-> Raised(pos), id |-> Len(prev)])

\* the setNuggets updater; nextId is nuggetIdRef.current before the ++
AddNugget(prev, pos, nextId) ==
    Append(prev, [pos |-> Raised(pos), id |-> nextId])

\* nuggetIdRef.current after handleDig
NextNuggetId(hasGold, nextId) == IF hasGold THEN nextId + 1 ELSE nextId

SceneHandleDig(pos, hasGold) ==
    /\ digs' = digs + 1                              \* onDig() -> App.handleDig
    /\ particles' = particles \o NewParticles(pos, particleIdRef)
    /\ particleIdRef' = particleIdRef + ParticlesPerDig
    /\ opacity' = [p \in DOMAIN opacity \cup
                         (particleIdRef..(particleIdRef + ParticlesPerDig - 1)) |->
                     IF p \in DOMAIN opacity THEN opacity[p] ELSE OpacityFull]
    /\ blocks' = RemoveBlock(blocks, pos)
    /\ nuggets' = IF hasGold THEN AddNugget(nuggets, pos, nuggetIdRef) ELSE nuggets
    /\ nuggetIdRef' = NextNuggetId(hasGold, nuggetIdRef)
    /\ collected' = [n \in {nuggets'[i].id : i \in DOMAIN nuggets'} |->
                       IF n \in DOMAIN collected THEN collected[n] ELSE FALSE]
    /\ digLog' = Append(digLog, [pos |-> pos, hasGold |-> hasGold])

---------------------------------------------------------------------------
(* GameScene.handleCollectGold and App.handleGoldCollect *)

\* prev.filter(n => n.id !== id)
RemoveNugget(prev, id) == SelectSeq(prev, LAMBDA n : n.id # id)

\* Math.floor(combo / 3) + 1, combo being the value the callback closed over
Bonus(c) == (c \div ComboStep) + 1

\* mutant: the pending timer is not cleared
ClearComboTimer_Skipped(pending, ref) == pending

\* if (comboTimerRef.current) clearTimeout(comboTimerRef.current)
ClearComboTimer(pending, ref) ==
    IF ref # NoTimer THEN {t \in pending : t.tid # ref} ELSE pending

---------------------------------------------------------------------------
(* DirtParticle frame callback, for a frame of TickMs milliseconds *)

FadedOpacity(o) == IF o > 0 THEN Max(0, o - FadeRate * TickMs) ELSE o

---------------------------------------------------------------------------
(* Initial state: the components as constructed, before any effect ran *)

Init ==
    /\ initialized = FALSE
    /\ blocks = <<>>
    /\ nuggets = <<>>
    /\ particles = <<>>
    /\ nuggetIdRef = 0
    /\ particleIdRef = 0
    /\ dugLevel = <<>>
    /\ collected = <<>>
    /\ opacity = <<>>
    /\ gold = 0
    /\ digs = 0
    /\ combo = 0
    /\ comboTimerRef = NoTimer
    /\ timerSeq = 1
    /\ collectTimers = {}
    /\ decayTimers = {}
    /\ digLog = <<>>
    /\ collectLog = <<>>
    /\ decayLog = <<>>

---------------------------------------------------------------------------
(* Actions *)

\* useEffect(() => { ... setBlocks(newBlocks) }, []) of GameScene, the
\* random draws giving gold to exactly the cells of goldAt
GridEffect(goldAt) ==
    /\ ~initialized
    /\ initialized' = TRUE
    /\ blocks' = NewBlocks(goldAt)
    /\ UNCHANGED <<nuggets, particles, nuggetIdRef, particleIdRef, dugLevel,
                   collected, opacity, gold, digs, combo, comboTimerRef,
                   timerSeq, collectTimers, decayTimers, digLog, collectLog,
                   decayLog>>

\* hasGold prop of the block at position c
HasGoldAt(c) == \E i \in DOMAIN blocks : blocks[i].pos = c /\ blocks[i].hasGold

\* the dugLevel state of the block at position c
Level(c) == IF c \in DOMAIN dugLevel THEN dugLevel[c] ELSE 0

\* GroundBlock.handleClick of the block at position c.  The handler is taken
\* to be callable whatever the block's level is: its own test decides.
BlockClick(c) ==
    /\ initialized
    /\ dugLevel' = [d \in DOMAIN dugLevel \cup {c} |->
                      IF d = c THEN ClickedLevel(Level(c)) ELSE dugLevel[d]]
    /\ UNCHANGED <<initialized, gold, combo, comboTimerRef, timerSeq,
                   collectTimers, decayTimers, collectLog, decayLog>>
    /\ IF ClickDigs(Level(c))
       THEN SceneHandleDig(c, HasGoldAt(c))
       ELSE UNCHANGED <<digs, digLog, nuggetIdRef, particleIdRef, collected,
                        opacity, nuggets, particles, blocks>>

\* mutant: the collected test is lost
ClickCollects_Always(isCollected) == TRUE

\* if (!collected): whether a click on a nugget marks it and starts the timer
ClickCollects(isCollected) == ~isCollected

\* GoldNugget.handleClick of the mounted nugget n
NuggetClick(n) ==
    /\ n \in DOMAIN collected
    /\ IF ClickCollects(collected[n])
       THEN /\ collected' = [collected EXCEPT ![n] = TRUE]
            /\ collectTimers' = collectTimers \cup
                   {[tid |-> timerSeq, rem |-> CollectDelay, id |-> n,
                     combo |-> combo]}
            /\ timerSeq' = timerSeq + 1
       ELSE UNCHANGED <<collected, collectTimers, timerSeq>>
    /\ UNCHANGED <<initialized, gold, digs, combo, comboTimerRef, nuggetIdRef,
                   particleIdRef, decayTimers, digLog, collectLog, decayLog,
                   dugLevel, opacity, nuggets, particles, blocks>>

\* timers of equal delay fire in the order they were started
DueCollect(t) ==
    /\ t \in collectTimers
    /\ t.rem = 0
    /\ \A u \in collectTimers : u.tid >= t.tid

\* the 300 ms callback: onCollect(id) = GameScene.handleCollectGold(id),
\* which calls onGoldCollect() = App.handleGoldCollect of the render in
\* which the nugget was clicked
CollectFire ==
    \E t \in collectTimers :
        /\ DueCollect(t)
        /\ collectTimers' = collectTimers \ {t}
        /\ nuggets' = RemoveNugget(nuggets, t.id)
        /\ collected' = [n \in {nuggets'[i].id : i \in DOMAIN nuggets'} |->
                           collected[n]]
        /\ gold' = gold + Bonus(t.combo)
        /\ combo' = combo + 1
        /\ decayTimers' = ClearComboTimer(decayTimers, comboTimerRef) \cup
                              {[tid |-> timerSeq, rem |-> ComboWindow]}
        /\ comboTimerRef' = timerSeq
        /\ timerSeq' = timerSeq + 1
        /\ collectLog' = Append(collectLog,
               [id |-> t.id, pending |-> decayTimers # {}])
        /\ UNCHANGED <<initialized, blocks, particles, nuggetIdRef,
                       particleIdRef, dugLevel, opacity, digs, digLog, decayLog>>

\* the 2000 ms callback: setCombo(0)
DecayFire ==
    \E t \in decayTimers :
        /\ t.rem = 0
        /\ decayTimers' = decayTimers \ {t}
        /\ combo' = 0
        /\ decayLog' = Append(decayLog, t.tid)
        /\ UNCHANGED <<initialized, blocks, nuggets, particles, nuggetIdRef,
                       particleIdRef, dugLevel, collected, opacity, gold, digs,
                       comboTimerRef, timerSeq, collectTimers, digLog,
                       collectLog>>

\* one time quantum passes and one frame is rendered: every pending timer
\* comes TickMs closer and every DirtParticle runs its useFrame callback
Tick ==
    /\ \A t \in collectTimers \cup decayTimers : t.rem > 0
    /\ collectTimers' = {[t EXCEPT !.rem = @ - 1] : t \in collectTimers}
    /\ decayTimers' = {[t EXCEPT !.rem = @ - 1] : t \in decayTimers}
    /\ opacity' = [p \in DOMAIN opacity |-> FadedOpacity(opacity[p])]
    /\ UNCHANGED <<initialized, blocks, nuggets, particles, nuggetIdRef,
                   particleIdRef, dugLevel, collected, gold, digs, combo,
                   comboTimerRef, timerSeq, digLog, collectLog, decayLog>>

\* the grid effect, gold being drawn for any of the cells the player clicks
InitGrid == \E goldAt \in SUBSET ClickCells : GridEffect(goldAt)

Next ==
    \/ InitGrid
    \/ \E c \in ClickCells : BlockClick(c)
    \/ \E n \in DOMAIN collected : NuggetClick(n)
    \/ CollectFire
    \/ DecayFire
    \/ Tick

Spec == Init /\ [][Next]_vars

---------------------------------------------------------------------------
(* A player in a hurry: every cell of RushCells holds gold, the player     *)
(* digs them up one after the other in the order of CandidateCells and     *)
(* clicks the nuggets in the order they appeared.  The handlers and timers *)
(* are those of Spec.                                                      *)

RushInitGrid == GridEffect(RushCells)

RushBlockClick ==
    \E i \in 1..NumRushCells :
        /\ Level(CandidateCells[i]) < DigThreshold
        /\ \A j \in 1..(i - 1) : Level(CandidateCells[j]) = DigThreshold
        /\ BlockClick(CandidateCells[i])

RushNuggetClick ==
    \E n \in DOMAIN collected :
        /\ ~collected[n]
        /\ \A m \in DOMAIN collected : m < n => collected[m]
        /\ NuggetClick(n)

NextRush ==
    \/ RushInitGrid
    \/ RushBlockClick
    \/ RushNuggetClick
    \/ CollectFire
    \/ DecayFire
    \/ Tick

SpecRush == Init /\ [][NextRush]_vars

---------------------------------------------------------------------------
(* Fairness: the browser keeps rendering frames and runs every timer       *)
(* callback whose delay has elapsed.  Nothing is assumed of the player.    *)

Fairness == WF_vars(Tick) /\ WF_vars(CollectFire) /\ WF_vars(DecayFire)

FairSpec == Spec /\ Fairness

FairSpecRush == SpecRush /\ Fairness

---------------------------------------------------------------------------
(* Vocabulary of the properties *)

NuggetIds == {nuggets[i].id : i \in DOMAIN nuggets}

InParticles(p) == \E i \in DOMAIN particles : particles[i].id = p

\* how often onDig was called for the block at position c
DigCalls(c) == Cardinality({i \in DOMAIN digLog : digLog[i].pos = c})

\* how often onCollect was called with id n
CollectCalls(n) == Cardinality({i \in DOMAIN collectLog : collectLog[i].id = n})

\* pending 300 ms timers of nugget n
TimersOf(n) == {t \in collectTimers : t.id = n}

\* the step is an excavation / a gold collection / a firing decay timer
DigStep == Len(digLog') = Len(digLog) + 1

CollectStep == Len(collectLog') = Len(collectLog) + 1

DecayStep == Len(decayLog') = Len(decayLog) + 1

---------------------------------------------------------------------------
(* C1 *)

C1_LevelInv ==
    \A c \in DOMAIN dugLevel :
        /\ dugLevel[c] \in 0..3
        /\ DigCalls(c) = IF dugLevel[c] = 3 THEN 1 ELSE 0

C1_LevelStep ==
    /\ \A c \in DOMAIN dugLevel : dugLevel'[c] >= dugLevel[c]
    /\ \A c \in ClickCells : (Level(c) = 3 /\ BlockClick(c)) => UNCHANGED vars
    /\ DigStep => \E c \in ClickCells :
                      /\ Level(c) = 2
                      /\ dugLevel'[c] = 3
                      /\ digLog'[Len(digLog')].pos = c

\* C1: for every block, under any sequence of clicks, dugLevel only grows
\* and stays within 0..3, a click at dugLevel 3 changes nothing, and onDig
\* has been called for the block exactly once when its dugLevel is 3 and
\* never before, the call being made by the click that takes it from 2 to 3.
C1_DugLevelMonotoneOnce == []C1_LevelInv /\ [][C1_LevelStep]_vars

C1_Witness ==
    \E c \in DOMAIN dugLevel :
        /\ dugLevel[c] = 3
        /\ DigCalls(c) = 1
        /\ \E d \in DOMAIN dugLevel : dugLevel[d] = 1

---------------------------------------------------------------------------
(* C4 *)

C4_NuggetInv ==
    \A n \in 0..(nuggetIdRef - 1) :
        \/ /\ n \in NuggetIds               \* on the scene, not clicked yet
           /\ ~collected[n]
           /\ TimersOf(n) = {}
           /\ CollectCalls(n) = 0
        \/ /\ n \in NuggetIds               \* clicked, its timer pending
           /\ collected[n]
           /\ Cardinality(TimersOf(n)) = 1
           /\ CollectCalls(n) = 0
        \/ /\ n \notin NuggetIds            \* collected and removed
           /\ TimersOf(n) = {}
           /\ CollectCalls(n) = 1

C4_NuggetStep ==
    /\ \A n \in DOMAIN collected :
           /\ (collected[n] /\ n \in DOMAIN collected') => collected'[n]
           /\ (collected[n] /\ NuggetClick(n)) => UNCHANGED vars
    /\ CollectStep =>
           LET id == collectLog'[Len(collectLog')].id
           IN  /\ id \in NuggetIds
               /\ collected[id]
               /\ \E t \in TimersOf(id) : t.rem = 0
               /\ Len(nuggets') = Len(nuggets) - 1
               /\ {nuggets'[i] : i \in DOMAIN nuggets'} =
                      {nuggets[i] : i \in {j \in DOMAIN nuggets : nuggets[j].id # id}}
               /\ combo' = combo + 1
    /\ (nuggets' # nuggets /\ ~CollectStep) => DigStep

\* C4: a nugget's collected flag never goes back to false, a click on a
\* collected nugget changes nothing (so at most one 300 ms timer per nugget
\* is ever pending), and every collected nugget gets exactly one
\* onCollect(id) call, made when its delay has elapsed, which removes that
\* nugget and no other from the list and reaches the gold counter once.
C4_CollectedOnce == []C4_NuggetInv /\ [][C4_NuggetStep]_vars

C4_Witness ==
    /\ \E n \in 0..(nuggetIdRef - 1) : n \notin NuggetIds /\ CollectCalls(n) = 1
    /\ \E n \in NuggetIds : collected[n] /\ Cardinality(TimersOf(n)) = 1

---------------------------------------------------------------------------
(* C6 *)

\* C6: at most one combo-decay timer is pending, and a pending one is the
\* timer started by the most recent collection (the one comboTimerRef
\* holds), so no timer started before the most recent collection can reset
\* combo.
C6_OneDecayTimer ==
    /\ Cardinality(decayTimers) <= 1
    /\ \A t \in decayTimers : t.tid = comboTimerRef
    /\ \A i \in DOMAIN decayLog : \A t \in decayTimers : decayLog[i] < t.tid

C6_Witness ==
    /\ Len(collectLog) >= 2
    /\ collectLog[Len(collectLog)].pending
    /\ decayTimers # {}

---------------------------------------------------------------------------
(* C7 *)

C7_DigStep ==
    DigStep =>
        LET e == digLog'[Len(digLog')]
            p == e.pos
            at == <<2 * p[1], 2 * p[2] + 1, 2 * p[3]>>  \* p + (0, 0.5, 0), in halves
            cell == {i \in DOMAIN blocks : blocks[i].pos = p}
        IN  /\ digs' = digs + 1
            /\ Len(particles') = Len(particles) + 8
            /\ \A i \in DOMAIN particles : particles'[i] = particles[i]
            /\ \A i \in (Len(particles) + 1)..Len(particles') :
                   particles'[i].pos = at
            /\ Cardinality(cell) = 1
            /\ \A i \in cell :
                   /\ blocks[i].hasGold = e.hasGold
                   /\ \A j \in DOMAIN blocks' :
                          blocks'[j] = blocks[IF j < i THEN j ELSE j + 1]
            /\ Len(blocks') = Len(blocks) - 1
            /\ IF e.hasGold
               THEN /\ Len(nuggets') = Len(nuggets) + 1
                    /\ SubSeq(nuggets', 1, Len(nuggets)) = nuggets
                    /\ nuggets'[Len(nuggets')].pos = at
               ELSE nuggets' = nuggets
            /\ gold' = gold
            /\ combo' = combo

\* C7: one excavation of the cell at p adds 1 to digs, appends exactly 8
\* particles at p + (0, 0.5, 0), removes exactly the cell at p from the
\* block list, appends exactly one nugget at p + (0, 0.5, 0) if the cell
\* has gold and none otherwise, and leaves gold and combo alone.
C7_Excavation == [][C7_DigStep]_vars

C7_Witness ==
    /\ Len(digLog) = 2
    /\ digLog[1].hasGold
    /\ ~digLog[2].hasGold
    /\ Len(nuggets) = 1
    /\ Len(particles) = 16

---------------------------------------------------------------------------
(* C8 *)

\* C8: the grid effect yields exactly 486 cells, one for every (x, y, z)
\* with x in -4..4, y in -5..0, z in -4..4, each with depth = -y, and their
\* ids are pairwise distinct, so that the id derived from a position matches
\* exactly one cell.
C8_GridInit ==
    (initialized /\ digLog = <<>>) =>
        /\ Len(blocks) = 486
        /\ {blocks[i].pos : i \in DOMAIN blocks} =
               {<<x, y, z>> : x \in -4..4, y \in -5..0, z \in -4..4}
        /\ \A i \in DOMAIN blocks : blocks[i].depth = -blocks[i].pos[2]
        /\ Cardinality({blocks[i].id : i \in DOMAIN blocks}) = 486
        /\ \A c \in ClickCells :
               Cardinality({i \in DOMAIN blocks :
                               blocks[i].id = BlockId(c[1], c[2], c[3])}) = 1

C8_Witness ==
    /\ initialized
    /\ digLog = <<>>
    /\ \E i \in DOMAIN blocks :
           blocks[i].pos = <<-4, -5, -4>> /\ blocks[i].id = "-4--5--4"
    /\ \E i \in DOMAIN blocks :
           blocks[i].pos = <<4, 0, 4>> /\ blocks[i].id = "4-0-4"

---------------------------------------------------------------------------
(* C9 *)

\* C9: the nuggets in the list carry pairwise distinct ids that increase
\* strictly in list (creation) order, every id handed out so far is below
\* nuggetIdRef, and no nugget in the list carries the id of a removed one.
C9_FreshNuggetIds ==
    /\ \A i, j \in DOMAIN nuggets : i < j => nuggets[i].id < nuggets[j].id
    /\ \A i \in DOMAIN nuggets : nuggets[i].id < nuggetIdRef
    /\ \A i \in DOMAIN collectLog :
           /\ collectLog[i].id < nuggetIdRef
           /\ collectLog[i].id \notin NuggetIds

C9_Witness ==
    /\ Len(collectLog) = 1
    /\ Len(nuggets) = 1
    /\ nuggets[1].id > collectLog[1].id

---------------------------------------------------------------------------
(* C10 *)

\* C10: once the grid is initialised, digs plus the number of cells left in
\* the block list is 486, and the number of nuggets created so far (those
\* in the list and those removed) is the number of excavated cells that had
\* gold.
C10_Conservation ==
    initialized =>
        /\ digs + Len(blocks) = 486
        /\ Len(nuggets) + Len(collectLog) =
               Cardinality({i \in DOMAIN digLog : digLog[i].hasGold})

C10_Witness ==
    /\ initialized
    /\ digs = 2
    /\ Len(blocks) = 484
    /\ Len(nuggets) + Len(collectLog) = 1

---------------------------------------------------------------------------
(* C2 *)

\* C2: on every gold collection gold grows by floor(c / 3) + 1 and combo
\* becomes c + 1, c being the value of combo immediately before that
\* collection, whatever the interleaving of nugget clicks, 300 ms timers
\* and decay timers.
C2_BonusFromCurrentCombo ==
    [][CollectStep => /\ gold' = gold + ((combo \div 3) + 1)
                      /\ combo' = combo + 1]_vars

---------------------------------------------------------------------------
(* C3 *)

MaxParticleId == ParticlesPerDig * NumClickCells - 1

\* C3: a particle leaves the particle list only once its opacity is 0, and
\* a particle in the list whose opacity is 0 is eventually no longer in the
\* list.
C3_ParticlesRemoved ==
    /\ [][\A p \in DOMAIN opacity :
              (InParticles(p) /\ ~InParticles(p)') => opacity[p] = 0]_vars
    /\ \A p \in 0..MaxParticleId :
           (InParticles(p) /\ opacity[p] = 0) ~> ~InParticles(p)

---------------------------------------------------------------------------
(* C5 *)

C5_Step ==
    /\ CollectStep =>
           /\ \E t \in decayTimers' : t.rem * TickMs = 2000  \* the window restarts
           /\ IF decayTimers = {}
              THEN combo = 0 /\ gold' = gold + 1      \* the timer has fired
              ELSE combo >= 1 /\ combo' = combo + 1   \* within the window
    /\ DecayStep =>
           /\ combo' = 0
           /\ \E t \in decayTimers : t.rem = 0 /\ decayTimers' = {}

\* C5: a collection starts the 2000 ms window, and when the window ends
\* without another collection the decay timer fires and combo becomes 0; a
\* collection made while the timer is pending adds 1 to combo (so two
\* collections less than 2000 ms apart leave combo at 2), and a collection
\* made after the timer has fired starts from combo 0 with bonus 1.
C5_ComboDecay == [][C5_Step]_vars

====
